---- MODULE Spec2Model ----
(***************************************************************************)
(* Model of the ping-pong benchmark of src/3_pingpong.py: parse_pairs,     *)
(* main's measurement loop, pingpong_asyncio (cooperative tasks on one     *)
(* event loop) and pingpong_threads (OS threads, start barrier, joins).    *)
(***************************************************************************)
EXTENDS Integers, Sequences, FiniteSets, TLC

\* ---------------------------------------------------------------- bounds
\* longest --pairs text explored
MaxLen == 3
\* largest pair count a text may name (also the largest digit of the alphabet)
MaxPairs == 2
\* largest --iters value explored
MaxIters == 2

\* ------------------------------------------------------ program constants
\* asyncio.Queue(maxsize=1) / queue.Queue(maxsize=1)
QueueMaxSize == 1

\* ------------------------------------------------------------ the --pairs text
DigitVal == [c \in {"0", "1", "2", "3", "4", "5", "6", "7", "8", "9"} |->
               CASE c = "0" -> 0 [] c = "1" -> 1 [] c = "2" -> 2 [] c = "3" -> 3
                 [] c = "4" -> 4 [] c = "5" -> 5 [] c = "6" -> 6 [] c = "7" -> 7
                 [] c = "8" -> 8 [] c = "9" -> 9]

Digits == DOMAIN DigitVal

Alphabet == {",", " ", "-"} \cup {c \in Digits : DigitVal[c] <= MaxPairs}

\* str.strip(): leading and trailing blanks removed
RECURSIVE Strip(_)
Strip(s) ==
    IF s = <<>> THEN s
    ELSE IF Head(s) = " " THEN Strip(Tail(s))
    ELSE IF s[Len(s)] = " " THEN Strip(SubSeq(s, 1, Len(s) - 1))
    ELSE s

\* str.split(","): always at least one part, empty parts kept
RECURSIVE Split(_)
Split(s) ==
    IF \A k \in 1..Len(s) : s[k] # ","
    THEN <<s>>
    ELSE LET k == CHOOSE j \in 1..Len(s) :
                    s[j] = "," /\ \A h \in 1..(j - 1) : s[h] # ","
         IN <<SubSeq(s, 1, k - 1)>> \o Split(SubSeq(s, k + 1, Len(s)))

AllDigits(t) == t # <<>> /\ \A k \in 1..Len(t) : t[k] \in Digits

\* the texts int() accepts (over this alphabet): an optional sign, then digits
IsIntLiteral(t) ==
    IF t # <<>> /\ Head(t) = "-" THEN AllDigits(Tail(t)) ELSE AllDigits(t)

RECURSIVE NatOf(_)
NatOf(t) == IF t = <<>> THEN 0 ELSE 10 * NatOf(SubSeq(t, 1, Len(t) - 1)) + DigitVal[t[Len(t)]]

\* int(part) for a text IsIntLiteral accepts
IntOf(t) == IF Head(t) = "-" THEN 0 - NatOf(Tail(t)) ELSE NatOf(t)

\* line 27 negated: the values parse_pairs accepts
IsValidCountZeroOk(v) == v >= 0
IsValidCount(v) == v > 0

\* the for loop of parse_pairs from part k on, vals collected so far
RECURSIVE ParseLoop(_, _, _)
ParseLoop(parts, k, vals) ==
    IF k > Len(parts)
    THEN IF vals = <<>>
         THEN [ok |-> FALSE, vals |-> <<>>, err |-> "empty pairs list"]
         ELSE [ok |-> TRUE, vals |-> vals, err |-> ""]
    ELSE LET part == Strip(parts[k]) IN
         IF part = <<>> THEN ParseLoop(parts, k + 1, vals)
         ELSE IF ~IsIntLiteral(part)
         THEN [ok |-> FALSE, vals |-> <<>>, err |-> "invalid literal for int()"]
         ELSE IF ~IsValidCount(IntOf(part))
         THEN [ok |-> FALSE, vals |-> <<>>, err |-> "pairs must be > 0"]
         ELSE ParseLoop(parts, k + 1, Append(vals, IntOf(part)))

parse_pairs(s) == ParseLoop(Split(s), 1, <<>>)

\* texts of at most MaxLen characters
Texts == UNION {[1..n -> Alphabet] : n \in 0..MaxLen}

\* every number a text names is at most MaxPairs in size
InBounds(s) ==
    \A k \in 1..Len(Split(s)) :
        LET part == Strip(Split(s)[k]) IN
        IsIntLiteral(part) =>
            (IntOf(part) <= MaxPairs /\ IntOf(part) >= 0 - MaxPairs)

Inputs == {s \in Texts : InBounds(s)}


\* ------------------------------------------------------------------ state
VARIABLES
    argv_pairs,  \* args.pairs: the --pairs text, until parse_pairs has read
                 \* it (main never reads it again)
    argv_iters,  \* args.iters
    main_pc,     \* main's position
    err,         \* the ValueError that ended main, or ""
    pairs_list,  \* main's pairs_list
    idx,         \* position of the for loop of main in pairs_list (from 1)
    rps_async,   \* main's dict rps_async: pair count -> operations measured
    rps_thr,     \* main's dict rps_thr
    out,         \* the lines main has printed
    xs,          \* main's xs
    call,        \* the running pingpong_asyncio / pingpong_threads call
    chans,       \* pair -> its two queues q1 and q2
    wk,          \* pair -> role -> the pinger / ponger frame
    ast,         \* asyncio: task -> state
    cur,         \* asyncio: the task the event loop is running
    drv,         \* threads: the driver's position in pingpong_threads
    bar,         \* threads: the Barrier "start"
    log,         \* history: pair -> the channel operations completed, in order
    events,      \* history: measurement calls and returns of main, in order
    prev_log     \* history: log as the last pingpong_asyncio call left it

vars == <<argv_pairs, argv_iters, main_pc, err, pairs_list, idx, rps_async,
          rps_thr, out, xs, call, chans, wk, ast, cur, drv, bar, log, events,
          prev_log>>

mainVars == <<argv_pairs, argv_iters, err, pairs_list, idx, rps_async, rps_thr,
              out, xs, prev_log>>

Roles == {"pinger", "ponger"}

NoTask == <<0, "none">>
Root == <<0, "root">>
Tasks(p) == {Root} \cup ((1..p) \X {"pair", "pinger", "ponger"})

NoCall == [fn |-> "none", iters |-> 0, pairs |-> 0, t0 |-> FALSE, t1 |-> FALSE]
NoDrv == [pc |-> "idle", k |-> 0]
NoBar == [parties |-> 0, count |-> 0, state |-> "filling"]

\* a queue: its deque, and (asyncio.Queue only) its _getters and _putters
NewQueue == [items |-> <<>>, getters |-> <<>>, putters |-> <<>>]

QFull(q) == Len(q.items) >= QueueMaxSize
QEmpty(q) == Len(q.items) = 0

\* Queue._put: deque.append
QPutDrop(q, v) == q
QPut(q, v) == [q EXCEPT !.items = Append(@, v)]

\* Queue._get: deque.popleft
QGetKeep(q) == q
QGet(q) == [q EXCEPT !.items = Tail(@)]

\* the queue each role's put and get are on
PutChanSame(role) == "q1"
PutChan(role) == IF role = "pinger" THEN "q1" ELSE "q2"
GetChan(role) == IF role = "pinger" THEN "q2" ELSE "q1"

\* the value put: the pinger's i, the ponger's v
PutValFirst(role, f) == IF role = "pinger" THEN f.i ELSE 0
PutVal(role, f) == IF role = "pinger" THEN f.i ELSE f.v

\* the first operation of a role's loop body
role_first(role) == IF role = "pinger" THEN "put" ELSE "get"

\* where a role starts: range(iters) is empty for iters <= 0
LoopEntry(role, n) ==
    IF n <= 0 THEN "done" ELSE role_first(role)

NewFrame(pc) == [pc |-> pc, i |-> 0, v |-> 0]

\* the frame after its put has completed
AfterPutNoReply(role, f, n) ==
    [f EXCEPT !.i = f.i + 1, !.pc = IF f.i + 1 >= n THEN "done" ELSE role_first(role)]
AfterPut(role, f, n) ==
    IF role = "pinger"
    THEN [f EXCEPT !.pc = "get"]
    ELSE [f EXCEPT !.i = f.i + 1, !.pc = IF f.i + 1 >= n THEN "done" ELSE "get"]

\* the frame after its get has returned item
AfterGetOneMore(role, f, item, n) ==
    IF role = "pinger"
    THEN [f EXCEPT !.i = f.i + 1, !.pc = IF f.i + 1 > n THEN "done" ELSE "put"]
    ELSE [f EXCEPT !.v = item, !.pc = "put"]
AfterGet(role, f, item, n) ==
    IF role = "pinger"
    THEN [f EXCEPT !.i = f.i + 1, !.pc = IF f.i + 1 >= n THEN "done" ELSE "put"]
    ELSE [f EXCEPT !.v = item, !.pc = "put"]

Op(role, op, ch, val) == [role |-> role, op |-> op, ch |-> ch, val |-> val]

Init ==
    /\ argv_pairs \in Inputs
    /\ argv_iters \in 0..MaxIters
    /\ main_pc = "parse"
    /\ err = ""
    /\ pairs_list = <<>>
    /\ idx = 0
    /\ rps_async = <<>>
    /\ rps_thr = <<>>
    /\ out = <<>>
    /\ xs = <<>>
    /\ call = NoCall
    /\ chans = <<>>
    /\ wk = <<>>
    /\ ast = <<>>
    /\ cur = NoTask
    /\ drv = NoDrv
    /\ bar = NoBar
    /\ log = <<>>
    /\ events = <<>>
    /\ prev_log = <<>>

runVars == <<call, chans, wk, ast, cur, drv, bar, log>>

\* ------------------------------------------------------------------- main
\* line 113: pairs_list = parse_pairs(args.pairs); a ValueError ends main
M_Parse ==
    /\ main_pc = "parse"
    /\ LET r == parse_pairs(argv_pairs) IN
       IF r.ok
       THEN /\ pairs_list' = r.vals
            /\ idx' = 1
            /\ main_pc' = "loop"
            /\ argv_pairs' = <<>>
            /\ err' = err
       ELSE /\ err' = r.err
            /\ main_pc' = "error"
            /\ UNCHANGED <<argv_pairs, pairs_list, idx>>
    /\ UNCHANGED <<argv_iters, rps_async, rps_thr, out, xs, events, prev_log>>
    /\ UNCHANGED runVars

\* d with d[key] = val
DictSet(d, key, val) ==
    [x \in (DOMAIN d) \cup {key} |-> IF x = key THEN val ELSE d[x]]

\* sorted(S) for a set of integers
RECURSIVE Sorted(_)
Sorted(S) ==
    IF S = {} THEN <<>>
    ELSE LET m == CHOOSE x \in S : \A y \in S : x <= y
         IN <<m>> \o Sorted(S \ {m})

\* lines 129-136: the loop is over; xs, (the plot), return 0
M_Finish ==
    /\ main_pc = "loop"
    /\ idx > Len(pairs_list)
    /\ xs' = Sorted((DOMAIN rps_async) \cap (DOMAIN rps_thr))
    /\ main_pc' = "exit"
    /\ UNCHANGED <<argv_pairs, argv_iters, err, pairs_list, idx, rps_async,
                   rps_thr, out, events, prev_log>>
    /\ UNCHANGED runVars

\* ------------------------------------------------------- pingpong_asyncio
\* line 119, lines 52-53: asyncio.run starts the root task, which takes t0,
\* makes one task per one_pair() and awaits their gather
M_CallAsyncio ==
    /\ main_pc = "loop"
    /\ idx <= Len(pairs_list)
    /\ LET p == pairs_list[idx] IN
         /\ call' = [fn |-> "asyncio", iters |-> argv_iters, pairs |-> p,
                     t0 |-> TRUE, t1 |-> (p <= 0)]
         /\ chans' = [k \in 1..p |-> [q1 |-> NewQueue, q2 |-> NewQueue]]
         /\ wk' = [k \in 1..p |-> [r \in Roles |-> NewFrame("absent")]]
         /\ ast' = [t \in Tasks(p) |->
                      IF t = Root THEN (IF p <= 0 THEN "done" ELSE "blocked")
                      ELSE IF t[2] = "pair" THEN "new" ELSE "absent"]
         /\ log' = [k \in 1..p |-> <<>>]
         /\ events' = Append(events, <<"call", "asyncio", p, argv_iters>>)
    /\ cur' = NoTask
    /\ main_pc' = "asyncio"
    /\ UNCHANGED <<drv, bar>>
    /\ UNCHANGED mainVars

\* the event loop takes a task that can run
A_Schedule(t) ==
    /\ call.fn = "asyncio"
    /\ cur = NoTask
    /\ ast[t] \in {"new", "ready"}
    /\ cur' = t
    /\ UNCHANGED <<main_pc, call, chans, wk, ast, drv, bar, log, events>>
    /\ UNCHANGED mainVars

\* lines 37-50, first step of one_pair: the pinger and ponger tasks are made
\* and the pair awaits their gather
A_PairStart(k) ==
    /\ cur = <<k, "pair">>
    /\ ast[cur] = "new"
    /\ wk' = [wk EXCEPT ![k] =
                [r \in Roles |-> NewFrame(LoopEntry(r, call.iters))]]
    /\ ast' = [ast EXCEPT ![<<k, "pair">>] = "blocked",
                          ![<<k, "pinger">>] = "new",
                          ![<<k, "ponger">>] = "new"]
    /\ chans' = [chans EXCEPT ![k] = [q1 |-> NewQueue, q2 |-> NewQueue]]
    /\ cur' = NoTask
    /\ UNCHANGED <<main_pc, call, drv, bar, log, events>>
    /\ UNCHANGED mainVars

\* line 50 returns: one_pair is done; the last pair to finish wakes the root
A_PairEnd(k) ==
    /\ cur = <<k, "pair">>
    /\ ast[cur] = "ready"
    /\ ast' = [t \in DOMAIN ast |->
                 IF t = cur THEN "done"
                 ELSE IF t = Root /\ \A j \in (1..call.pairs) \ {k} :
                                        ast[<<j, "pair">>] = "done"
                 THEN "ready"
                 ELSE ast[t]]
    /\ cur' = NoTask
    /\ UNCHANGED <<main_pc, call, chans, wk, drv, bar, log, events>>
    /\ UNCHANGED mainVars

\* _wakeup_next: the first waiter's future is resolved, its task can run again
Woken(a, waiters) ==
    IF waiters = <<>> THEN a ELSE [a EXCEPT ![Head(waiters)] = "ready"]

Rest(waiters) == IF waiters = <<>> THEN waiters ELSE Tail(waiters)

\* lines 42 / 48, asyncio.Queue.put: suspend while the queue is full, else
\* put_nowait: _put, then wake the next getter
A_Put(k, r) ==
    /\ cur = <<k, r>>
    /\ r \in Roles
    /\ wk[k][r].pc = "put"
    /\ LET ch == PutChan(r)
           q == chans[k][ch]
       IN IF QFull(q)
          THEN /\ chans' = [chans EXCEPT ![k][ch].putters = Append(@, cur)]
               /\ ast' = [ast EXCEPT ![cur] = "blocked"]
               /\ cur' = NoTask
               /\ UNCHANGED <<wk, log>>
          ELSE /\ chans' = [chans EXCEPT ![k][ch] =
                              [QPut(q, PutVal(r, wk[k][r])) EXCEPT
                                  !.getters = Rest(q.getters)]]
               /\ ast' = Woken(ast, q.getters)
               /\ wk' = [wk EXCEPT ![k][r] = AfterPut(r, @, call.iters)]
               /\ log' = [log EXCEPT ![k] =
                            Append(@, Op(r, "put", ch, PutVal(r, wk[k][r])))]
               /\ cur' = cur
    /\ UNCHANGED <<main_pc, call, drv, bar, events>>
    /\ UNCHANGED mainVars

\* lines 43 / 47, asyncio.Queue.get: suspend while the queue is empty, else
\* get_nowait: _get, then wake the next putter
A_Get(k, r) ==
    /\ cur = <<k, r>>
    /\ r \in Roles
    /\ wk[k][r].pc = "get"
    /\ LET ch == GetChan(r)
           q == chans[k][ch]
       IN IF QEmpty(q)
          THEN /\ chans' = [chans EXCEPT ![k][ch].getters = Append(@, cur)]
               /\ ast' = [ast EXCEPT ![cur] = "blocked"]
               /\ cur' = NoTask
               /\ UNCHANGED <<wk, log>>
          ELSE /\ chans' = [chans EXCEPT ![k][ch] =
                              [QGet(q) EXCEPT !.putters = Rest(q.putters)]]
               /\ ast' = Woken(ast, q.putters)
               /\ wk' = [wk EXCEPT ![k][r] =
                           AfterGet(r, @, Head(q.items), call.iters)]
               /\ log' = [log EXCEPT ![k] =
                            Append(@, Op(r, "get", ch, Head(q.items)))]
               /\ cur' = cur
    /\ UNCHANGED <<main_pc, call, drv, bar, events>>
    /\ UNCHANGED mainVars

\* the pinger / ponger coroutine returns; the second of a pair wakes one_pair
A_WorkerEnd(k, r) ==
    /\ cur = <<k, r>>
    /\ r \in Roles
    /\ wk[k][r].pc = "done"
    /\ ast' = [t \in DOMAIN ast |->
                 IF t = cur THEN "done"
                 ELSE IF t = <<k, "pair">> /\ \A s \in Roles \ {r} :
                                                 ast[<<k, s>>] = "done"
                 THEN "ready"
                 ELSE ast[t]]
    /\ cur' = NoTask
    /\ UNCHANGED <<main_pc, call, chans, wk, drv, bar, log, events>>
    /\ UNCHANGED mainVars

\* line 54: the gather is done, the root takes the end time and returns
A_RootEnd ==
    /\ cur = Root
    /\ ast[Root] = "ready"
    /\ ast' = [ast EXCEPT ![Root] = "done"]
    /\ call' = [call EXCEPT !.t1 = TRUE]
    /\ cur' = NoTask
    /\ UNCHANGED <<main_pc, chans, wk, drv, bar, log, events>>
    /\ UNCHANGED mainVars

\* lines 119-122: asyncio.run returns dt_a; rps_async[p] is set and printed
M_AsyncioDone ==
    /\ main_pc = "asyncio"
    /\ cur = NoTask
    /\ ast[Root] = "done"
    /\ rps_async' = DictSet(rps_async, call.pairs, call.iters * call.pairs)
    /\ out' = Append(out, <<"asyncio", call.pairs>>)
    /\ events' = Append(events, <<"return", "asyncio", call.pairs, call.iters>>)
    /\ main_pc' = "call_threads"
    /\ call' = NoCall
    /\ chans' = <<>>
    /\ wk' = <<>>
    /\ ast' = <<>>
    /\ log' = <<>>
    /\ prev_log' = log
    /\ UNCHANGED <<cur, drv, bar>>
    /\ UNCHANGED <<argv_pairs, argv_iters, err, pairs_list, idx, rps_thr, xs>>

\* ------------------------------------------------------- pingpong_threads
\* threads[j]: add_pair appends a pair's pinger, then its ponger
ThreadAt(j) == <<(j + 1) \div 2, IF j % 2 = 1 THEN "pinger" ELSE "ponger">>

\* line 59: the parties of the start barrier
BarrierPartiesNoDriver(p) == 2 * p
BarrierParties(p) == 2 * p + 1

\* lines 124, 58-81: the barrier, and per pair two queues and two threads
\* that are not started yet
M_CallThreads ==
    /\ main_pc = "call_threads"
    /\ LET p == pairs_list[idx] IN
         /\ call' = [fn |-> "threads", iters |-> argv_iters, pairs |-> p,
                     t0 |-> FALSE, t1 |-> FALSE]
         /\ bar' = [parties |-> BarrierParties(p), count |-> 0,
                    state |-> "filling"]
         /\ chans' = [k \in 1..p |-> [q1 |-> NewQueue, q2 |-> NewQueue]]
         /\ wk' = [k \in 1..p |-> [r \in Roles |-> NewFrame("new")]]
         /\ log' = [k \in 1..p |-> <<>>]
         /\ events' = Append(events, <<"call", "threads", p, argv_iters>>)
    /\ drv' = [pc |-> "start", k |-> 1]
    /\ main_pc' = "threads"
    /\ UNCHANGED <<ast, cur>>
    /\ UNCHANGED mainVars

\* lines 83-84: th.start() for the next thread of the list
T_Start ==
    /\ drv.pc = "start"
    /\ drv.k <= 2 * call.pairs
    /\ LET w == ThreadAt(drv.k) IN
         wk' = [wk EXCEPT ![w[1]][w[2]].pc = "wait"]
    /\ drv' = [drv EXCEPT !.k = @ + 1]
    /\ UNCHANGED <<main_pc, call, chans, ast, cur, bar, log, events>>
    /\ UNCHANGED mainVars

\* line 86: t0 = now()
T_TakeT0 ==
    /\ drv.pc = "start"
    /\ drv.k > 2 * call.pairs
    /\ call' = [call EXCEPT !.t0 = TRUE]
    /\ drv' = [drv EXCEPT !.pc = "wait"]
    /\ UNCHANGED <<main_pc, chans, wk, ast, cur, bar, log, events>>
    /\ UNCHANGED mainVars

\* Barrier._enter and _release: one more party has arrived; the last one
\* starts the draining
BarArriveEarly(b) ==
    [b EXCEPT !.count = b.count + 1,
              !.state = IF b.count + 1 >= b.parties - 1 THEN "draining" ELSE b.state]
BarArrive(b) ==
    [b EXCEPT !.count = b.count + 1,
              !.state = IF b.count + 1 = b.parties THEN "draining" ELSE b.state]

\* Barrier._exit: a party leaves; the last one resets the barrier
BarExit(b) ==
    [b EXCEPT !.count = b.count - 1,
              !.state = IF b.count - 1 = 0 THEN "filling" ELSE b.state]

\* whether the party arriving now is the last, so that wait() does not block
BarLast(b) == b.count + 1 = b.parties

\* line 87, start.wait() by the driver: it arrives, and passes if it is last
T_DriverArrive ==
    /\ drv.pc = "wait"
    /\ bar.state = "filling"
    /\ IF BarLast(bar)
       THEN /\ bar' = BarExit(BarArrive(bar))
            /\ drv' = [pc |-> "join", k |-> 1]
       ELSE /\ bar' = BarArrive(bar)
            /\ drv' = [drv EXCEPT !.pc = "barrier"]
    /\ UNCHANGED <<main_pc, call, chans, wk, ast, cur, log, events>>
    /\ UNCHANGED mainVars

\* line 87: the driver's start.wait() returns once the barrier drains
T_DriverPass ==
    /\ drv.pc = "barrier"
    /\ bar.state = "draining"
    /\ bar' = BarExit(bar)
    /\ drv' = [pc |-> "join", k |-> 1]
    /\ UNCHANGED <<main_pc, call, chans, wk, ast, cur, log, events>>
    /\ UNCHANGED mainVars

\* lines 66 / 72, start.wait() by a worker thread
W_Arrive(k, r) ==
    /\ call.fn = "threads"
    /\ wk[k][r].pc = "wait"
    /\ bar.state = "filling"
    /\ IF BarLast(bar)
       THEN /\ bar' = BarExit(BarArrive(bar))
            /\ wk' = [wk EXCEPT ![k][r].pc = LoopEntry(r, call.iters)]
       ELSE /\ bar' = BarArrive(bar)
            /\ wk' = [wk EXCEPT ![k][r].pc = "barrier"]
    /\ UNCHANGED <<main_pc, call, chans, ast, cur, drv, log, events>>
    /\ UNCHANGED mainVars

\* lines 66 / 72: the worker's start.wait() returns once the barrier drains
W_Pass(k, r) ==
    /\ call.fn = "threads"
    /\ wk[k][r].pc = "barrier"
    /\ bar.state = "draining"
    /\ bar' = BarExit(bar)
    /\ wk' = [wk EXCEPT ![k][r].pc = LoopEntry(r, call.iters)]
    /\ UNCHANGED <<main_pc, call, chans, ast, cur, drv, log, events>>
    /\ UNCHANGED mainVars

\* lines 68 / 75, queue.Queue.put: waits on not_full while the queue is full
W_Put(k, r) ==
    /\ call.fn = "threads"
    /\ wk[k][r].pc = "put"
    /\ LET ch == PutChan(r)
           q == chans[k][ch]
       IN /\ ~QFull(q)
          /\ chans' = [chans EXCEPT ![k][ch] = QPut(q, PutVal(r, wk[k][r]))]
          /\ wk' = [wk EXCEPT ![k][r] = AfterPut(r, @, call.iters)]
          /\ log' = [log EXCEPT ![k] =
                       Append(@, Op(r, "put", ch, PutVal(r, wk[k][r])))]
    /\ UNCHANGED <<main_pc, call, ast, cur, drv, bar, events>>
    /\ UNCHANGED mainVars

\* lines 69 / 74, queue.Queue.get: waits on not_empty while the queue is empty
W_Get(k, r) ==
    /\ call.fn = "threads"
    /\ wk[k][r].pc = "get"
    /\ LET ch == GetChan(r)
           q == chans[k][ch]
       IN /\ ~QEmpty(q)
          /\ chans' = [chans EXCEPT ![k][ch] = QGet(q)]
          /\ wk' = [wk EXCEPT ![k][r] =
                      AfterGet(r, @, Head(q.items), call.iters)]
          /\ log' = [log EXCEPT ![k] =
                       Append(@, Op(r, "get", ch, Head(q.items)))]
    /\ UNCHANGED <<main_pc, call, ast, cur, drv, bar, events>>
    /\ UNCHANGED mainVars

\* a thread that has run to its end, normally or not
TerminatedAny(f) == TRUE
Terminated(f) == f.pc \in {"done", "crashed"}

\* lines 88-89: th.join() returns once the thread has terminated
T_Join ==
    /\ drv.pc = "join"
    /\ drv.k <= 2 * call.pairs
    /\ LET w == ThreadAt(drv.k) IN Terminated(wk[w[1]][w[2]])
    /\ drv' = [drv EXCEPT !.k = @ + 1]
    /\ UNCHANGED <<main_pc, call, chans, wk, ast, cur, bar, log, events>>
    /\ UNCHANGED mainVars

\* line 90: every thread is joined; the end time is taken
T_Return ==
    /\ drv.pc = "join"
    /\ drv.k > 2 * call.pairs
    /\ call' = [call EXCEPT !.t1 = TRUE]
    /\ drv' = [drv EXCEPT !.pc = "returned"]
    /\ UNCHANGED <<main_pc, chans, wk, ast, cur, bar, log, events>>
    /\ UNCHANGED mainVars

\* lines 124-127: rps_thr[p] is set and printed; the for loop goes on
M_ThreadsDone ==
    /\ main_pc = "threads"
    /\ drv.pc = "returned"
    /\ rps_thr' = DictSet(rps_thr, call.pairs, call.iters * call.pairs)
    /\ out' = Append(out, <<"threads", call.pairs>>)
    /\ events' = Append(events, <<"return", "threads", call.pairs, call.iters>>)
    /\ idx' = idx + 1
    /\ main_pc' = "loop"
    /\ call' = NoCall
    /\ chans' = <<>>
    /\ wk' = <<>>
    /\ log' = <<>>
    /\ drv' = NoDrv
    /\ bar' = NoBar
    /\ UNCHANGED <<ast, cur>>
    /\ UNCHANGED <<argv_pairs, argv_iters, err, pairs_list, rps_async, xs,
                   prev_log>>

\* a worker thread dies of an exception part-way through its loop
W_Crash(k, r) ==
    /\ call.fn = "threads"
    /\ wk[k][r].pc \in {"put", "get"}
    /\ wk' = [wk EXCEPT ![k][r].pc = "crashed"]
    /\ UNCHANGED <<main_pc, call, chans, ast, cur, drv, bar, log, events>>
    /\ UNCHANGED mainVars

\* ------------------------------------------------------------ specifications
Pairs == 1..call.pairs

AsyncioStep ==
    \/ \E t \in DOMAIN ast : A_Schedule(t)
    \/ \E k \in Pairs : A_PairStart(k)
    \/ \E k \in Pairs : A_PairEnd(k)
    \/ \E k \in Pairs, r \in Roles : A_Put(k, r)
    \/ \E k \in Pairs, r \in Roles : A_Get(k, r)
    \/ \E k \in Pairs, r \in Roles : A_WorkerEnd(k, r)
    \/ A_RootEnd

ThreadStep ==
    \/ T_Start
    \/ T_TakeT0
    \/ T_DriverArrive
    \/ T_DriverPass
    \/ \E k \in Pairs, r \in Roles : W_Arrive(k, r)
    \/ \E k \in Pairs, r \in Roles : W_Pass(k, r)
    \/ \E k \in Pairs, r \in Roles : W_Put(k, r)
    \/ \E k \in Pairs, r \in Roles : W_Get(k, r)
    \/ T_Join
    \/ T_Return

MainStep ==
    \/ M_Parse
    \/ M_CallAsyncio
    \/ M_AsyncioDone
    \/ M_CallThreads
    \/ M_ThreadsDone
    \/ M_Finish

Next == MainStep \/ AsyncioStep \/ ThreadStep

Spec == Init /\ [][Next]_vars

\* some runnable thread or task always gets to run
FairSpec == Spec /\ WF_vars(Next)

\* the run with a worker thread that may die
NextFault == Next \/ \E k \in Pairs, r \in Roles : W_Crash(k, r)

FaultSpec == Init /\ [][NextFault]_vars

\* ------------------------------------------------------ history operators
Chans == {"q1", "q2"}

\* the values of the completed puts (op = "put") or gets on queue ch of pair k
Vals(k, op, ch) ==
    LET sel == SelectSeq(log[k], LAMBDA e : e.op = op /\ e.ch = ch)
    IN [j \in 1..Len(sel) |-> sel[j].val]

IsPrefix(a, b) == Len(a) <= Len(b) /\ SubSeq(b, 1, Len(a)) = a

\* 0, 1, ..., n-1
Upto(n) == [j \in 1..n |-> j - 1]

\* the iterations a call makes
Iters == IF call.iters > 0 THEN call.iters ELSE 0

Active == call.fn # "none"

AllDone ==
    \A k \in DOMAIN wk, r \in Roles : wk[k][r].pc = "done" /\ wk[k][r].i = Iters

\* a call of each variant, for two pairs and two iterations, has returned
BothReturned ==
    /\ call.fn = "threads" /\ call.t1
    /\ call.pairs = 2 /\ call.iters = 2
    /\ \E j \in 1..Len(events) : events[j] = <<"return", "asyncio", 2, 2>>

\* ------------------------------------------------------------------ claims
\* C1: no deadlock. Under a fair scheduler every call of pingpong_asyncio and
\* of pingpong_threads returns its elapsed time with every pinger and ponger
\* through all its iterations, and in no state of a call that has not
\* returned is every task and thread without an enabled step.
C1_NoDeadlock ==
    /\ Active ~> (call.t1 /\ AllDone)
    /\ []((Active /\ ~call.t1) => ENABLED (AsyncioStep \/ ThreadStep))

C1_Witness == BothReturned /\ AllDone

\* C2: channel correctness. On every queue the values got are, in order, the
\* values put (a prefix of them while a value is in the queue, which is then
\* exactly the value missing), all of them once the call has returned; the
\* ponger's gets on q1 are 0, 1, 2, ...
C2_ChannelFifo ==
    \A k \in DOMAIN log, ch \in Chans :
        LET puts == Vals(k, "put", ch)
            gets == Vals(k, "get", ch)
        IN /\ IsPrefix(gets, puts)
           /\ gets \o chans[k][ch].items = puts
           /\ call.t1 => gets = puts
           /\ ch = "q1" => gets = Upto(Len(gets))
           /\ (ch = "q1" /\ call.t1) => gets = Upto(Iters)

C2_Witness ==
    /\ call.fn = "asyncio" /\ call.t1 /\ call.pairs = 2
    /\ Vals(2, "get", "q1") = <<0, 1>>
    /\ Vals(2, "get", "q2") = <<0, 1>>

\* C3: operation counts. No queue ever has more than N puts or more than N
\* gets completed, and when the call has returned every queue of every pair
\* has exactly N of each.
C3_OpCounts ==
    \A k \in DOMAIN log, ch \in Chans :
        /\ Len(Vals(k, "put", ch)) <= Iters
        /\ Len(Vals(k, "get", ch)) <= Iters
        /\ call.t1 => /\ Len(Vals(k, "put", ch)) = Iters
                      /\ Len(Vals(k, "get", ch)) = Iters

C3_Witness ==
    /\ BothReturned
    /\ \A k \in 1..2, ch \in Chans :
          Len(Vals(k, "put", ch)) = 2 /\ Len(Vals(k, "get", ch)) = 2

\* every worker thread and the driver have called start.wait()
AllArrived ==
    /\ \A k \in DOMAIN wk, r \in Roles : wk[k][r].pc \notin {"new", "wait"}
    /\ drv.pc \in {"barrier", "join", "returned"}

\* C4: barrier correctness. In the thread variant no worker is past its
\* start.wait(), and so none has completed a channel operation, unless all
\* 2P workers and the driver have arrived at the barrier.
C4_Barrier ==
    call.fn = "threads" =>
        \A k \in DOMAIN wk, r \in Roles :
            (wk[k][r].pc \in {"put", "get", "done"} \/ log[k] # <<>>)
                => AllArrived

C4_Witness ==
    /\ call.fn = "threads" /\ call.pairs = 2
    /\ log[1] # <<>> /\ log[2] = <<>>
    /\ wk[2]["ponger"].pc = "barrier"

\* the driver's start.wait() has returned
DriverPassed == drv.pc \in {"join", "returned"}

\* C5: in the thread variant the start time is taken only once the driver
\* has passed the start barrier, so never while a worker has not arrived.
C5_T0AfterBarrier ==
    (call.fn = "threads" /\ call.t0) =>
        /\ DriverPassed
        /\ \A k \in DOMAIN wk, r \in Roles : wk[k][r].pc \notin {"new", "wait"}

\* the four operations of iteration i of a pair, in their order
Round(i) ==
    <<Op("pinger", "put", "q1", i), Op("ponger", "get", "q1", i),
      Op("ponger", "put", "q2", i), Op("pinger", "get", "q2", i)>>

RECURSIVE Rounds(_)
Rounds(n) == IF n <= 0 THEN <<>> ELSE Rounds(n - 1) \o Round(n - 1)

\* C6: strict alternation. The operations a pair has completed are always
\* the first ones of the one order put(i) on q1, get on q1, put on q2, get
\* on q2, put(i+1) on q1, ...; the ponger has completed as many iterations as
\* the pinger, or one more.
C6_Alternation ==
    \A k \in DOMAIN log :
        /\ IsPrefix(log[k], Rounds(Iters))
        /\ wk[k]["ponger"].i - wk[k]["pinger"].i \in {0, 1}

C6_Witness ==
    /\ call.fn = "threads" /\ call.pairs = 2
    /\ log[1] = Rounds(2)
    /\ Len(log[2]) = 3
    /\ wk[2]["ponger"].i - wk[2]["pinger"].i = 1

\* C7: single-slot blocking. Every queue holds no value or one, and holds
\* exactly the puts completed on it that no completed get has taken: so the
\* k-th get is never completed before the k-th put, and the (k+1)-th put
\* never before the k-th get.
C7_SingleSlot ==
    \A k \in DOMAIN chans, ch \in Chans :
        /\ Len(chans[k][ch].items) \in {0, 1}
        /\ Len(Vals(k, "put", ch)) - Len(Vals(k, "get", ch))
              = Len(chans[k][ch].items)

C7_Witness ==
    /\ call.fn = "asyncio" /\ call.pairs = 2
    /\ Len(chans[2]["q2"].items) = 1
    /\ Len(Vals(2, "put", "q2")) = 2
    /\ Len(Vals(2, "get", "q2")) = 1

\* a part of the text is an integer that is not positive
HasNonPositive(s) ==
    \E k \in 1..Len(Split(s)) :
        LET part == Strip(Split(s)[k]) IN IsIntLiteral(part) /\ IntOf(part) <= 0

\* every part of the text is blank
NoValues(s) == \A k \in 1..Len(Split(s)) : Strip(Split(s)[k]) = <<>>

NothingRun ==
    /\ events = <<>> /\ out = <<>> /\ ~Active
    /\ rps_async = <<>> /\ rps_thr = <<>>

\* C8: validation before all timed work. A text with a value <= 0, or with
\* no value at all, makes parse_pairs fail; after a failure main has made no
\* call and printed no row; no call is ever made for a pair count <= 0.
C8_Validation ==
    /\ [][(main_pc = "parse" /\ (HasNonPositive(argv_pairs) \/ NoValues(argv_pairs)))
             => (main_pc' = "error" /\ err' # "")]_vars
    /\ [](main_pc = "error" => NothingRun)
    /\ [](\A j \in 1..Len(events) : events[j][3] > 0)
    /\ [](Active => call.pairs > 0)

C8_Witness ==
    /\ main_pc = "error"
    /\ HasNonPositive(argv_pairs)
    /\ err = "pairs must be > 0"
    /\ NothingRun

\* a worker that waits for an operation that is not possible now
Blocked(k, r) ==
    \/ wk[k][r].pc = "put" /\ QFull(chans[k][PutChan(r)])
    \/ wk[k][r].pc = "get" /\ QEmpty(chans[k][GetChan(r)])

\* C9: a worker's failure does not hang the run. In the thread variant there
\* is no state in which a worker has died, its peer waits on a queue, the
\* driver waits in join for a thread that has not terminated, and no thread
\* has a step left.
C9_NoHang ==
    ~ /\ call.fn = "threads"
      /\ \E k \in DOMAIN wk, r \in Roles :
            /\ wk[k][r].pc = "crashed"
            /\ \E s \in Roles \ {r} : Blocked(k, s)
      /\ drv.pc = "join"
      /\ drv.k <= 2 * call.pairs
      /\ ~ENABLED Next

\* what main calls and gets back, in order, for a list and an iteration count
RECURSIVE Plan(_, _)
Plan(ps, n) ==
    IF ps = <<>> THEN <<>>
    ELSE <<<<"call", "asyncio", Head(ps), n>>, <<"return", "asyncio", Head(ps), n>>,
           <<"call", "threads", Head(ps), n>>, <<"return", "threads", Head(ps), n>>>>
         \o Plan(Tail(ps), n)

\* C10: runner ordering. main's calls and returns follow the parsed list in
\* order: per element the cooperative call, its return, the thread call, its
\* return, all with args.iters, each exactly once. No call is made while
\* another runs, and when one returns none of its tasks or threads is left
\* running.
C10_RunnerOrder ==
    /\ IsPrefix(events, Plan(pairs_list, argv_iters))
    /\ main_pc = "exit" => events = Plan(pairs_list, argv_iters)
    /\ Len(events) % 2 = 1 <=> Active
    /\ call.fn = "asyncio" => (drv = NoDrv /\ bar = NoBar)
    /\ call.fn = "threads" => ast = <<>>
    /\ (call.fn = "asyncio" /\ ast[Root] = "done") =>
          \A t \in DOMAIN ast : ast[t] = "done"
    /\ drv.pc = "returned" =>
          \A k \in DOMAIN wk, r \in Roles : wk[k][r].pc = "done"

C10_Witness ==
    /\ main_pc = "exit"
    /\ Len(pairs_list) = 2
    /\ pairs_list[1] > pairs_list[2]
    /\ events = Plan(pairs_list, argv_iters)
    /\ argv_iters = 2

\* C11: scheduler equivalence. When the thread call for a pair count returns,
\* every queue of every pair has had the same values put, in the same order,
\* and the same values got as in the cooperative call main made just before
\* for the same pair count and iteration count.
C11_SchedulerEquivalence ==
    (call.fn = "threads" /\ call.t1) =>
        /\ DOMAIN prev_log = DOMAIN log
        /\ \A k \in DOMAIN log, ch \in Chans, op \in {"put", "get"} :
              LET coop == SelectSeq(prev_log[k],
                                    LAMBDA e : e.op = op /\ e.ch = ch)
              IN Vals(k, op, ch) = [j \in 1..Len(coop) |-> coop[j].val]

C11_Witness ==
    /\ call.fn = "threads" /\ call.t1
    /\ call.pairs = 2 /\ call.iters = 2
    /\ DOMAIN prev_log = 1..2
    /\ Len(prev_log[2]) = 8
    /\ Vals(2, "get", "q2") = <<0, 1>>

\* a pair's tasks or threads are not all through
PairUnfinished(k) ==
    IF call.fn = "asyncio" THEN ast[<<k, "pair">>] # "done"
    ELSE \E r \in Roles : wk[k][r].pc # "done"

\* pair k has a step of its own to take
PairCanStep(k) ==
    IF call.fn = "asyncio"
    THEN ENABLED (\/ \E n \in {"pair", "pinger", "ponger"} : A_Schedule(<<k, n>>)
                  \/ A_PairStart(k) \/ A_PairEnd(k)
                  \/ \E r \in Roles : A_Put(k, r) \/ A_Get(k, r) \/ A_WorkerEnd(k, r))
    ELSE ENABLED (\E r \in Roles : W_Pass(k, r) \/ W_Put(k, r) \/ W_Get(k, r))

\* the tasks are launched and the loop runs no other pair's task (asyncio);
\* the start barrier has let the parties go (threads)
PairFree(k) ==
    IF call.fn = "asyncio" THEN cur = NoTask \/ cur[1] = k
    ELSE AllArrived

\* C12: pair independence. A step that completes a channel operation of pair
\* i leaves the queues, frames and log of every other pair as they are; and
\* once the tasks are launched (the barrier has released) an unfinished pair
\* always has a step of its own to take, whatever the other pairs have done.
C12_PairIndependence ==
    /\ [][DOMAIN log' = DOMAIN log =>
            \A i \in DOMAIN log : log'[i] # log[i] =>
                \A j \in (DOMAIN log) \ {i} :
                    chans'[j] = chans[j] /\ wk'[j] = wk[j] /\ log'[j] = log[j]]_vars
    /\ [](Active => \A k \in DOMAIN log :
                       (PairFree(k) /\ PairUnfinished(k)) => PairCanStep(k))

\* pair 1 has run to completion while the threads of pair 2 have not moved
\* since the barrier released
C12_Witness ==
    /\ call.fn = "threads" /\ call.pairs = 2 /\ call.iters = 2
    /\ log[1] = Rounds(2)
    /\ \A r \in Roles : wk[1][r].pc = "done"
    /\ log[2] = <<>>
    /\ \A r \in Roles : wk[2][r].pc = "barrier"

C12_WitnessAsyncio ==
    /\ call.fn = "asyncio" /\ call.pairs = 2 /\ call.iters = 2
    /\ ast[<<1, "pair">>] = "done"
    /\ ast[<<2, "pair">>] = "new"

\* C13: the measurement ends after all the work. The end time of a call is
\* taken only when every worker thread has terminated (threads), every
\* pinger, ponger and one_pair task is done (asyncio); and the start time is
\* taken before any channel operation of the call.
C13_MeasurementSpan ==
    /\ (call.fn = "threads" /\ call.t1) =>
          /\ \A k \in DOMAIN wk, r \in Roles : Terminated(wk[k][r])
          /\ drv.k = 2 * call.pairs + 1
    /\ (call.fn = "asyncio" /\ call.t1) =>
          \A t \in (DOMAIN ast) \ {Root} : ast[t] = "done"
    /\ call.t1 => \A k \in DOMAIN log : Len(log[k]) = 4 * Iters
    /\ Active => \A k \in DOMAIN log : log[k] # <<>> => call.t0
    /\ call.t1 => call.t0

C13_Witness ==
    /\ call.fn = "threads" /\ call.t0 /\ call.t1
    /\ call.pairs = 2 /\ call.iters = 2
    /\ drv = [pc |-> "returned", k |-> 5]
    /\ \A k \in 1..2 : Len(log[k]) = 8
    /\ \A k \in 1..2, r \in Roles : Terminated(wk[k][r])

\* th.start() fails: RuntimeError("can't start new thread") leaves
\* pingpong_threads and, uncaught, main; the process ends
T_StartFail ==
    /\ drv.pc = "start"
    /\ drv.k <= 2 * call.pairs
    /\ main_pc' = "error"
    /\ err' = "can't start new thread"
    /\ call' = NoCall
    /\ chans' = <<>>
    /\ wk' = <<>>
    /\ log' = <<>>
    /\ drv' = NoDrv
    /\ bar' = NoBar
    /\ UNCHANGED <<ast, cur, events>>
    /\ UNCHANGED <<argv_pairs, argv_iters, pairs_list, idx, rps_async, rps_thr,
                   out, xs, prev_log>>

\* the run in which a thread may fail to start
NextStartFault == Next \/ T_StartFail

StartFaultSpec == Init /\ [][NextStartFault]_vars

\* the pair counts of the rows printed for a variant
Reported(kind) ==
    {out[j][2] : j \in {h \in 1..Len(out) : out[h][1] = kind}}

\* C14: failure isolation. When main has ended, every pair count of the list
\* has had both measurements attempted, and the variant that did not fail is
\* reported for each of them: a thread that cannot be started costs only the
\* thread measurement of its pair count.
C14_FailureIsolation ==
    (main_pc \in {"exit", "error"} /\ pairs_list # <<>>) =>
        /\ \A j \in 1..Len(pairs_list) :
              /\ \E h \in 1..Len(events) :
                    events[h] = <<"call", "asyncio", pairs_list[j], argv_iters>>
              /\ \E h \in 1..Len(events) :
                    events[h] = <<"call", "threads", pairs_list[j], argv_iters>>
              /\ pairs_list[j] \in Reported("asyncio")
        /\ Len(events) >= 3 * Len(pairs_list)

\* the pair counts main has called pingpong_asyncio for, in order
Measured ==
    LET calls == SelectSeq(events, LAMBDA e : e[1] = "call" /\ e[2] = "asyncio")
    IN [j \in 1..Len(calls) |-> calls[j][3]]

Distinct(seq) == \A i, j \in 1..Len(seq) : i # j => seq[i] # seq[j]

\* C15: the pair counts measured are deduplicated. No pair count is measured
\* twice in one invocation and no two printed rows are for the same variant
\* and pair count.
C15_Deduplicated == Distinct(Measured) /\ Distinct(out)

\* C16: at most one token in flight. The two queues of a pair never hold a
\* value at the same time.
C16_OneToken ==
    \A k \in DOMAIN chans :
        Len(chans[k]["q1"].items) + Len(chans[k]["q2"].items) <= 1

C16_Witness ==
    /\ call.fn = "threads" /\ call.pairs = 2
    /\ chans[1]["q1"].items = <<1>> /\ chans[1]["q2"].items = <<>>
    /\ chans[2]["q1"].items = <<>> /\ chans[2]["q2"].items = <<0>>

\* the worker threads of the call
Workers == (DOMAIN wk) \X Roles

\* the parties that have entered start.wait(), and those it has returned to
NumArrived ==
    Cardinality({w \in Workers : wk[w[1]][w[2]].pc \notin {"new", "wait"}})
        + (IF drv.pc \in {"barrier", "join", "returned"} THEN 1 ELSE 0)

NumPassed ==
    Cardinality({w \in Workers : wk[w[1]][w[2]].pc \in {"put", "get", "done"}})
        + (IF DriverPassed THEN 1 ELSE 0)

\* C17: the start barrier. It is made for 2P+1 parties and 2P threads are
\* made; a party that has entered start.wait() never enters it again, one to
\* which it has returned never waits again; the barrier lets parties go from
\* the step in which the (2P+1)-th arrives, not before, until all have left,
\* and then never again.
C17_BarrierOnce ==
    /\ [](call.fn = "threads" =>
            /\ bar.parties = 2 * call.pairs + 1
            /\ Cardinality(Workers) = 2 * call.pairs
            /\ bar.count = NumArrived - NumPassed
            /\ NumPassed > 0 => NumArrived = 2 * call.pairs + 1
            /\ bar.state = "draining" <=>
                  (NumArrived = 2 * call.pairs + 1 /\ NumPassed < 2 * call.pairs + 1)
            /\ call.t1 => (NumPassed = 2 * call.pairs + 1 /\ bar.count = 0))
    /\ [][(call.fn = "threads" /\ call'.fn = "threads") =>
            /\ NumArrived' \in {NumArrived, NumArrived + 1}
            /\ NumPassed' \in {NumPassed, NumPassed + 1}
            /\ \A w \in Workers :
                  /\ wk[w[1]][w[2]].pc \notin {"new", "wait"}
                        => wk'[w[1]][w[2]].pc \notin {"new", "wait"}
                  /\ wk[w[1]][w[2]].pc \in {"put", "get", "done"}
                        => wk'[w[1]][w[2]].pc \in {"put", "get", "done"}
            /\ (bar.state = "filling" /\ bar'.state = "draining") =>
                  (NumArrived = 2 * call.pairs /\ NumArrived' = 2 * call.pairs + 1
                     /\ NumPassed = 0)]_vars

C17_Witness ==
    /\ call.fn = "threads" /\ call.pairs = 2
    /\ bar = [parties |-> 5, count |-> 2, state |-> "draining"]
    /\ NumArrived = 5 /\ NumPassed = 3
    /\ drv.pc = "barrier"

\* C18: echo. The values the ponger has put on q2 are, in order, the values
\* it has got from q1 (all but the one it still holds), and the i-th value
\* the pinger gets from q2 is i, the value it put on q1 in that iteration.
C18_Echo ==
    \A k \in DOMAIN log :
        /\ IsPrefix(Vals(k, "put", "q2"), Vals(k, "get", "q1"))
        /\ Len(Vals(k, "get", "q1")) - Len(Vals(k, "put", "q2")) \in {0, 1}
        /\ wk[k]["ponger"].pc = "put" =>
              Vals(k, "get", "q1") = Append(Vals(k, "put", "q2"), wk[k]["ponger"].v)
        /\ Vals(k, "get", "q2") = Upto(Len(Vals(k, "get", "q2")))
        /\ IsPrefix(Vals(k, "get", "q2"), Vals(k, "put", "q1"))

C18_Witness ==
    /\ call.fn = "asyncio" /\ call.pairs = 2 /\ call.iters = 2
    /\ Vals(1, "get", "q2") = <<0, 1>>
    /\ Vals(1, "put", "q1") = <<0, 1>>
    /\ wk[2]["ponger"].pc = "put" /\ wk[2]["ponger"].v = 1

\* C19 as claimed: a pair of a returned call has completed 2 x iterations
\* channel operations in all.
C19_TotalOpsTwoN ==
    call.t1 => \A k \in DOMAIN log : Len(log[k]) = 2 * Iters

\* C19 as amended: a pair of a returned call has completed 4 x iterations
\* channel operations in all: 2 x iterations by each role, 2 x iterations on
\* each queue.
C19_TotalOps ==
    call.t1 =>
        \A k \in DOMAIN log :
            /\ Len(log[k]) = 4 * Iters
            /\ \A r \in Roles :
                  Len(SelectSeq(log[k], LAMBDA e : e.role = r)) = 2 * Iters
            /\ \A ch \in Chans :
                  Len(SelectSeq(log[k], LAMBDA e : e.ch = ch)) = 2 * Iters

C19_Witness ==
    /\ call.fn = "asyncio" /\ call.t1
    /\ call.pairs = 2 /\ call.iters = 2
    /\ Len(log[1]) = 8 /\ Len(log[2]) = 8

\* C20: a put never has to wait. Whenever a pinger or ponger is about to put,
\* the queue it puts on is empty, so the put is possible whatever the capacity
\* of the queue; no task ever waits among the putters of a queue.
C20_PutNeverWaits ==
    \A k \in DOMAIN wk :
        /\ \A r \in Roles :
              wk[k][r].pc = "put" =>
                  (QEmpty(chans[k][PutChan(r)]) /\ ~Blocked(k, r))
        /\ \A ch \in Chans : chans[k][ch].putters = <<>>

C20_Witness ==
    /\ call.fn = "threads" /\ call.pairs = 2 /\ call.iters = 2
    /\ wk[1]["pinger"].pc = "put" /\ wk[1]["pinger"].i = 1
    /\ wk[2]["ponger"].pc = "put" /\ wk[2]["ponger"].i = 1
    /\ \A k \in 1..2, ch \in Chans : QEmpty(chans[k][ch])

====
